---- MODULE Spec2Model ----
(***************************************************************************)
(* Model of dataproc/core/misc_graph.py: the plotting helpers figaxes,     *)
(* fill_between, set_plot_props, plot_accross, imshowz and figaxes_xdate,  *)
(* acting on the drawing library's registry of figures (containers) and    *)
(* their axes (sub-surfaces).                                              *)
(*                                                                         *)
(* An optional Python value is a sequence: None is <<>> and a supplied v   *)
(* is <<v>>.  An exception that leaves a function is the string naming it  *)
(* in the "result" field of the call's outcome; "ok" is a normal return.   *)
(***************************************************************************)
EXTENDS Integers, Sequences, FiniteSets, TLC

VARIABLES figs,      \* figure number -> the sequence of its axes, each the set of artist kinds drawn on it
          managers,  \* the open figures known to pyplot, most recently active last
          ncalls,    \* the number of calls made so far
          call,      \* the last call made: the function and its arguments
          ret        \* what that call produced: result, returned values, actions on the surface

vars == <<figs, managers, ncalls, call, ret>>

\* ------------------------------------------------------------------ bounds
MaxFigs == 2     \* figure numbers 1..MaxFigs
MaxAxes == 2     \* axes per figure
MaxDim == 3      \* largest size of one array dimension
MaxRank == 3     \* largest number of array dimensions
MaxLen == 2      \* longest top/bottom/time sequence
MaxCalls == 4    \* calls made in one session of figaxes calls
MaxSetup == 1    \* calls that prepare the registry before the call under study

FigIds == 1..MaxFigs

None == <<>>
Some(v) == <<v>>
IsNone(o) == o = <<>>
Val(o) == o[1]

Max(S) == CHOOSE m \in S : \A x \in S : x <= m
Min(S) == CHOOSE m \in S : \A x \in S : m <= x
Range(s) == {s[i] : i \in 1..Len(s)}

\* ------------------------------------------------- the drawing library
\* A fresh axes holds no artist.
NewAxes == {}

IsOpen(mg, n) == n \in Range(mg)

\* pyplot makes figure n the active one: it moves to the end of the managers.
SetActive(mg, n) == SelectSeq(mg, LAMBDA m : m # n) \o <<n>>

\* plt.figure() without a number takes the largest open number plus one.
NextNum(mg) == IF mg = <<>> THEN 1 ELSE Max(Range(mg)) + 1

\* plt.gcf(): the active figure, created as figure 1 when none is open.
GcfNum(mg) == IF mg = <<>> THEN 1 ELSE mg[Len(mg)]

\* Figure.clf(): every axes of the figure is removed.
clf(axs) == <<>>

\* Figure.add_subplot(111): one more axes, empty.
add_subplot(axs) == Append(axs, NewAxes)

\* Axes.cla(): the content of axes i alone is wiped.
cla(axs, i) == [axs EXCEPT ![i] = NewAxes]

\* An artist of kind k is drawn on axes i.
draw(axs, i, k) == [axs EXCEPT ![i] = @ \cup {k}]

\* ---------------------------------------------------------------- figaxes
\* The descriptors figaxes accepts for `axes`.
AxNone == [kind |-> "None"]
AxInt(n) == [kind |-> "int", num |-> n]
AxFigure(f) == [kind |-> "Figure", fig |-> f]
AxAxes(f, i) == [kind |-> "Axes", fig |-> f, idx |-> i]
AxOther == [kind |-> "str"]

\* The handles a caller can hold in the current registry.
Descriptors(fg, mg) ==
    LET figures == {AxFigure(f) : f \in Range(mg)}
        subsurfaces == UNION {{AxAxes(f, i) : i \in 1..Len(fg[f])} : f \in Range(mg)}
    IN  {AxNone, AxOther} \cup {AxInt(n) : n \in FigIds} \cup figures \cup subsurfaces

Outcome(fg, mg, result, fig, ax) ==
    [figs |-> fg, managers |-> mg, result |-> result, fig |-> fig, ax |-> ax]

\* axes is None: a new figure, or the active one cleared, with one new axes.
figaxes_None(fg, mg, force_new) ==
    LET n == IF force_new THEN NextNum(mg) ELSE GcfNum(mg)
    IN  Outcome([fg EXCEPT ![n] = add_subplot(clf(@))], SetActive(mg, n), "ok", n, 1)

\* axes is an int: figure of that number, created when it is not open.
figaxes_int(fg, mg, n, clear) ==
    LET axs == IF IsOpen(mg, n) THEN fg[n] ELSE <<>>
    IN  IF clear \/ Len(axs) = 0
        THEN Outcome([fg EXCEPT ![n] = add_subplot(clf(axs))], SetActive(mg, n), "ok", n, 1)
        ELSE Outcome([fg EXCEPT ![n] = axs], SetActive(mg, n), "ok", n, 1)

\* axes is a Figure: cleared on request, given an axes when it has none.
figaxes_Figure(fg, mg, f, clear) ==
    LET a1 == IF clear THEN clf(fg[f]) ELSE fg[f]
        a2 == IF Len(a1) = 0 THEN add_subplot(a1) ELSE a1
    IN  Outcome([fg EXCEPT ![f] = a2], mg, "ok", f, 1)

\* As figaxes_Axes, but clear wipes every axes of the figure.
figaxes_AxesWholeFigure(fg, mg, f, i, clear) ==
    Outcome([fg EXCEPT ![f] = IF clear THEN [j \in 1..Len(@) |-> NewAxes] ELSE @], mg, "ok", f, i)

\* axes is an Axes: used as it is, its own content wiped on request.
figaxes_Axes(fg, mg, f, i, clear) ==
    Outcome([fg EXCEPT ![f] = IF clear THEN cla(@, i) ELSE @], mg, "ok", f, i)

figaxes(fg, mg, axes, force_new, clear) ==
    CASE axes.kind = "None" -> figaxes_None(fg, mg, force_new)
      [] axes.kind = "int" -> figaxes_int(fg, mg, axes.num, clear)
      [] axes.kind = "Figure" -> figaxes_Figure(fg, mg, axes.fig, clear)
      [] axes.kind = "Axes" -> figaxes_Axes(fg, mg, axes.fig, axes.idx, clear)
      [] OTHER -> Outcome(fg, mg, "ValueError", 0, 0)

\* The model holds figure numbers 1..MaxFigs: a call that would open one more is not taken.
WithinFigs(mg, axes, force_new) ==
    axes.kind = "None" /\ force_new => NextNum(mg) <= MaxFigs

\* ----------------------------------------------------------- fill_between
\* The values bottom and top can take.
PyNone == [kind |-> "None"]
PyFloat(v) == [kind |-> "float", v |-> v]
PyInt(v) == [kind |-> "int", v |-> v]
PyArray(a) == [kind |-> "array", a |-> a]

Repeat(v, n) == [k \in 1..n |-> v]

\* top*0: an array of zeros of top's length, or the scalar zero of top's type.
TimesZero(x) == IF x.kind = "array" THEN PyArray(Repeat(0, Len(x.a))) ELSE [x EXCEPT !.v = 0]

\* numpy broadcasts two operands when the lengths agree or one of them is a scalar or of length 1.
Broadcasts(x, y) ==
    x.kind # "array" \/ y.kind # "array" \/ Len(x.a) = Len(y.a) \/ Len(x.a) = 1 \/ Len(y.a) = 1

FillOutcome(fg, result, twin, bottom, top) ==
    [figs |-> fg, result |-> result, twin |-> twin, bottom |-> bottom, top |-> top]

\* fill_between(ax, bottom, top) on axes i of figure f.
fill_between(fg, f, i, bottom, top) ==
    IF bottom.kind = "None" /\ top.kind = "None"
    THEN FillOutcome(fg, "ok", 0, bottom, top)
    ELSE
    LET b1 == IF bottom.kind = "None" THEN TimesZero(top) ELSE bottom
    IN  IF top.kind = "None"
        THEN FillOutcome(fg, "TypeError", 0, b1, top)            \* top *= max(bottom), top being None
        ELSE IF top.kind = "float" /\ b1.kind # "array"
        THEN FillOutcome(fg, "TypeError", 0, b1, top)            \* len(bottom) of a scalar
        ELSE
        LET t2 == IF top.kind = "float" THEN PyArray(Repeat(top.v, Len(b1.a))) ELSE top
        IN  IF b1.kind = "float" /\ t2.kind # "array"
            THEN FillOutcome(fg, "TypeError", 0, b1, t2)         \* len(top) of a scalar
            ELSE
            LET b2 == IF b1.kind = "float" THEN PyArray(Repeat(b1.v, Len(t2.a))) ELSE b1
                twin == Len(fg[f]) + 1
                fg1 == [fg EXCEPT ![f] = add_subplot(@)]          \* ax.twinx()
                fg2 == [fg1 EXCEPT ![f] = draw(@, twin, "band")]  \* ax2.fill_between(...)
            IN  IF "line" \notin fg[f][i]
                THEN FillOutcome(fg1, "IndexError", twin, b2, t2)    \* ax.get_lines()[0]
                ELSE IF ~Broadcasts(b2, t2)
                THEN FillOutcome(fg1, "ValueError", twin, b2, t2)
                ELSE IF t2.kind # "array" \/ b2.kind # "array"
                THEN FillOutcome(fg2, "AttributeError", twin, b2, t2) \* top.max() of an int
                ELSE FillOutcome(fg2, "ok", twin, b2, t2)

\* --------------------------------------------------------- set_plot_props
\* One action on the surface: the method called and its numeric arguments.
Ev(act, arg) == [act |-> act, arg |-> arg]

\* ax_method is an insertion-ordered dict: a sequence of entries with distinct
\* methods, each holding one keyword set (list FALSE) or a list of them.
Entry(method, list, kws) == [method |-> method, list |-> list, kws |-> kws]
HasKey(am, k) == \E j \in 1..Len(am) : am[j].method = k
SetKey(am, e) ==
    IF HasKey(am, e.method)
    THEN [j \in 1..Len(am) |-> IF am[j].method = e.method THEN e ELSE am[j]]
    ELSE Append(am, e)

\* The methods an Axes has, among the names the callers of the model use.
AxesMethods == {"axvspan", "axhline", "grid"}

\* Lines 75-78: the ax_method dict the dispatch loop runs over.
EffectiveAxMethod(ax_method, vspan) ==
    LET am == IF IsNone(ax_method) THEN <<>> ELSE Val(ax_method)
    IN  IF ~IsNone(vspan) /\ ~HasKey(am, "vspan")
        THEN SetKey(am, Entry("axvspan", FALSE, <<Val(vspan)>>))
        ELSE am

\* Lines 79-83: the calls of the dispatch loop, in order.
RECURSIVE Flatten(_)
Flatten(am) ==
    IF am = <<>> THEN <<>>
    ELSE [k \in 1..Len(am[1].kws) |-> Ev(am[1].method, am[1].kws[k])] \o Flatten(Tail(am))

\* The calls made before the first method the surface lacks (getattr raises there).
RECURSIVE Dispatched(_)
Dispatched(evs) ==
    IF evs = <<>> \/ evs[1].act \notin AxesMethods THEN <<>>
    ELSE <<evs[1]>> \o Dispatched(Tail(evs))

\* Lines 87-88.
\* As DefaultShow, but a show left out is taken as true whatever save is.
DefaultShowAlways(show, save) == IF IsNone(show) THEN TRUE ELSE Val(show)

DefaultShow(show, save) == IF IsNone(show) THEN IsNone(save) ELSE Val(show)

\* Lines 99-108: a number n stands for [0, n].
LimEvent(act, lim) ==
    IF IsNone(lim) THEN <<>>
    ELSE IF Val(lim).kind = "number" THEN <<Ev(act, <<0>> \o Val(lim).v)>>
    ELSE <<Ev(act, Val(lim).v)>>
Number(n) == [kind |-> "number", v |-> <<n>>]
Pair(a, b) == [kind |-> "pair", v |-> <<a, b>>]

\* Lines 90-108: title, labels, legend and limits.
Decoration(a) ==
    <<Ev("set_title", <<>>), Ev("set_xlabel", <<>>), Ev("set_ylabel", <<>>)>>
    \o (IF IsNone(a.legend) THEN <<>>
        ELSE <<Ev("legend", <<IF IsNone(Val(a.legend).loc) THEN 1 ELSE Val(Val(a.legend).loc)>>)>>)
    \o LimEvent("set_xlim", a.xlim) \o LimEvent("set_ylim", a.ylim)

\* Lines 110-116: layout, then save, show and close.
Finish(a) ==
    <<Ev("tight_layout", <<>>)>>
    \o (IF ~IsNone(a.save) THEN <<Ev("savefig", <<>>)>> ELSE <<>>)
    \o (IF DefaultShow(a.show, a.save) THEN <<Ev("show", <<>>)>> ELSE <<>>)
    \o (IF a.close THEN <<Ev("close", <<>>)>> ELSE <<>>)

PropsOutcome(fg, mg, result, log, twin) ==
    [figs |-> fg, managers |-> mg, result |-> result, log |-> log, twin |-> twin]

\* plt.close(fig): the figure leaves the registry.
plt_close(mg, f) == SelectSeq(mg, LAMBDA m : m # f)

\* As BlockOrder, but save, show and close come first.
SaveShowCloseFirst(pre, band, decoration, finish) == finish \o pre \o band \o decoration

\* The order of the four blocks of set_plot_props: lines 79-83, 84-85, 90-108, 110-116.
BlockOrder(pre, band, decoration, finish) == pre \o band \o decoration \o finish

\* set_plot_props(ax, **a) on axes i of figure f.
set_plot_props(fg, mg, f, i, a) ==
    LET all == Flatten(EffectiveAxMethod(a.ax_method, a.vspan))
        pre == Dispatched(all)
        fb == IF IsNone(a.fill_between) THEN FillOutcome(fg, "ok", 0, PyNone, PyNone)
              ELSE fill_between(fg, f, i, Val(a.fill_between).bottom, Val(a.fill_between).top)
        band == IF IsNone(a.fill_between) THEN <<>> ELSE <<Ev("fill_between", <<>>)>>
    IN  IF Len(pre) < Len(all)
        THEN PropsOutcome(fg, mg, "AttributeError", pre, 0)          \* getattr(ax, method)
        ELSE IF fb.result # "ok"
        THEN PropsOutcome(fb.figs, mg, fb.result, pre \o band, fb.twin)
        ELSE IF ~IsNone(a.legend) /\ Val(a.legend).kind = "bool"
        THEN PropsOutcome(fb.figs, mg, "AttributeError",              \* legend.keys() of a bool
                          BlockOrder(pre, band, SubSeq(Decoration([a EXCEPT !.legend = None]), 1, 3), <<>>),
                          fb.twin)
        ELSE PropsOutcome(IF a.close THEN [fb.figs EXCEPT ![f] = <<>>] ELSE fb.figs,
                          IF a.close THEN plt_close(mg, f) ELSE mg,
                          "ok", BlockOrder(pre, band, Decoration(a), Finish(a)), fb.twin)

\* Python's binding of a call's arguments to set_plot_props' parameters: ax has no default.
BindsAx(positional, keywords) == positional >= 1 \/ "ax" \in keywords

\* ----------------------------------------------------------- plot_accross
\* What prep_data_plot is given: a numpy array, an HDU, an HDUList (data is that
\* of the HDU selected), a file AstroFile can read (data is what its reader
\* returns), or something else.  The data held is an array or None.
NdArray(d) == [kind |-> "ndarray", data |-> Some(d)]
HDU(d) == [kind |-> "HDU", data |-> d]
HDUList(d) == [kind |-> "HDUList", data |-> d]
File(d) == [kind |-> "file", data |-> d]
Unreadable == [kind |-> "other", data |-> None]

\* prep_data_plot(indata): the data, or the error raised.  With no data the
\* message is formatted with {0:s}, which an HDU object does not support.
prep_data_plot(indata) ==
    IF indata.kind = "other" THEN [result |-> "TypeError", data |-> None]
    ELSE IF ~IsNone(indata.data) THEN [result |-> "ok", data |-> indata.data]
    ELSE IF indata.kind = "HDU" THEN [result |-> "TypeError", data |-> None]
    ELSE [result |-> "ValueError", data |-> None]

\* Line 169: a scalar pos is expanded to [None] + [0]*(ndim-2) + [pos].
ExpandPos(pos, ndim) ==
    IF pos.kind = "list" THEN pos.items
    ELSE <<None>> \o Repeat(Some(0), IF ndim >= 2 THEN ndim - 2 ELSE 0) \o <<Some(pos.n)>>
Scalar(p) == [kind |-> "scalar", n |-> p]
List(ps) == [kind |-> "list", items |-> ps]

\* numpy accepts index p on an axis of size d when -d <= p < d.
IndexOk(p, d) == -d <= p /\ p < d

\* The shape of data[pos]: the sizes of the axes left free (None becomes a full slice).
RECURSIVE SliceShape(_, _)
SliceShape(shape, pos) ==
    IF shape = <<>> THEN <<>>
    ELSE (IF IsNone(pos[1]) THEN <<shape[1]>> ELSE <<>>) \o SliceShape(Tail(shape), Tail(pos))

AcrossOutcome(fg, mg, result, pos, accross) ==
    [figs |-> fg, managers |-> mg, result |-> result, pos |-> pos, accross |-> accross]

\* plot_accross(data, axes=axes, pos=pos); the array is given by its shape.
plot_accross(fg, mg, indata, axes, pos) ==
    LET prep == prep_data_plot(indata)
        data == Val(prep.data)
        p == ExpandPos(pos, Len(data))
    IN  IF prep.result # "ok"
        THEN AcrossOutcome(fg, mg, prep.result, <<>>, None)
        ELSE IF Len(p) # Len(data)
        THEN AcrossOutcome(fg, mg, "TypeError", p, None)
        ELSE IF \E k \in 1..Len(p) : ~IsNone(p[k]) /\ ~IndexOk(Val(p[k]), data[k])
        THEN AcrossOutcome(fg, mg, "IndexError", p, None)
        ELSE
        LET accross == Some(SliceShape(data, p))
            fa == figaxes(fg, mg, axes, TRUE, TRUE)
            drawn == [fa.figs EXCEPT ![fa.fig] = draw(@, fa.ax, "line")]     \* ax.plot(accross)
        IN  IF fa.result # "ok"
            THEN AcrossOutcome(fa.figs, fa.managers, fa.result, p, accross)
            ELSE IF ~BindsAx(0, {"title", "xlabel", "ylabel"})                 \* line 186
            THEN AcrossOutcome(drawn, fa.managers, "TypeError", p, accross)
            ELSE AcrossOutcome(drawn, fa.managers, "ok", p, accross)

\* ---------------------------------------------------------- figaxes_xdate
\* Times are held in units of 1/UnitsPerDay of a day, relative to the epoch
\* of the plot dates: plot_date and the Julian Day differ by a constant.
UnitsPerDay == 24 * 60

\* Lines 413-422, tdelta in units of 1/UnitsPerDay minutes.
DateFormat(tdelta) ==
    IF tdelta < 4 * UnitsPerDay THEN "%H:%M:%S"
    ELSE IF tdelta < 8 * 60 * UnitsPerDay THEN "%H:%M"
    ELSE IF tdelta < 5 * 60 * 24 * UnitsPerDay THEN "%Y-%b-%d %H:%M"
    ELSE IF tdelta < 1 * 60 * 24 * 365 * UnitsPerDay THEN "%Y %b"
    ELSE "%Y"

\* Line 412: (retx[-1] - retx[0])*24*60, kept as a multiple of 1/UnitsPerDay.
Tdelta(retx) == (retx[Len(retx)] - retx[1]) * 24 * 60

XdateOutcome(fg, mg, result, fig, ax, fmt) ==
    [figs |-> fg, managers |-> mg, result |-> result, fig |-> fig, ax |-> ax, fmt |-> fmt]

\* figaxes_xdate(x, axes, clear); x is a Time array, one datetime, a sequence of JD numbers or something else.
figaxes_xdate(fg, mg, x, axes, clear) ==
    LET fa == figaxes(fg, mg, axes, TRUE, clear)
    IN  IF fa.result # "ok"
        THEN XdateOutcome(fa.figs, fa.managers, fa.result, 0, 0, None)
        ELSE IF x.kind = "datetime"
        THEN XdateOutcome(fa.figs, fa.managers, "TypeError", fa.fig, fa.ax, None)   \* retx[-1] of a datetime
        ELSE IF x.kind \notin {"Time", "jd"}
        THEN XdateOutcome(fa.figs, fa.managers, "ValueError", fa.fig, fa.ax, None)
        ELSE XdateOutcome(fa.figs, fa.managers, "ok", fa.fig, fa.ax, Some(DateFormat(Tdelta(x.v))))

\* ---------------------------------------------------------------- imshowz
\* A 2-D array is the sequence of its rows; Shape gives (height, width).
Height(m) == Len(m)
Width(m) == IF Len(m) = 0 THEN 0 ELSE Len(m[1])
Shape(m) == <<Height(m), Width(m)>>

\* np.flip(m, 0), np.flip(m, 1) and np.transpose(m).
flip0(m) == [i \in 1..Height(m) |-> m[Height(m) + 1 - i]]
flip1(m) == [i \in 1..Height(m) |-> [j \in 1..Width(m) |-> m[i][Width(m) + 1 - j]]]
transpose(m) == [i \in 1..Width(m) |-> [j \in 1..Height(m) |-> m[j][i]]]

\* As rot90, but turning clockwise.
rot90Clockwise(m, k) ==
    CASE k % 4 = 0 -> m
      [] k % 4 = 2 -> flip0(flip1(m))
      [] k % 4 = 1 -> flip1(transpose(m))
      [] OTHER     -> transpose(flip1(m))

\* np.rot90(m, k): k is taken modulo 4.
rot90(m, k) ==
    CASE k % 4 = 0 -> m
      [] k % 4 = 2 -> flip1(flip0(m))
      [] k % 4 = 1 -> transpose(flip1(m))
      [] OTHER     -> flip1(transpose(m))

\* Lines 318-319: times = rotate/90 is whole exactly when 90 divides rotate.
IsWhole(num, den) == num % den = 0

\* Python's `c and a or b`: a when c holds and a is truthy (not 0), else b.
AndOr(c, a, b) == IF c /\ a # 0 THEN a ELSE b

\* Python's `x *= c` for a boolean c: x or 0.
TimesBool(x, c) == IF c THEN x ELSE 0

\* As CenterWindow, but the upper bound is not clamped to the dimension.
CenterWindowNoUpperClamp(c, rad, size) == <<TimesBool(c - rad, c - rad > 0), c + rad>>

\* Lines 329-334 on one axis: center c, radius rad, dimension size.
CenterWindow(c, rad, size) ==
    <<TimesBool(c - rad, c - rad > 0), AndOr(c + rad > size, size, c + rad)>>

\* Lines 325-328: the radius used; the smallest border distance when plot_rad is None.
Radius(cxy, plot_rad, shape) ==
    IF IsNone(plot_rad)
    THEN Min({shape[2] - cxy[1], cxy[1], shape[1] - cxy[2], cxy[2]})
    ELSE Val(plot_rad)

\* A Python slice bound on an axis of size n: negative counts from the end, then clipped.
SliceBound(b, n) ==
    LET c == IF b < 0 THEN b + n ELSE b
    IN  IF c < 0 THEN 0 ELSE IF c > n THEN n ELSE c

\* data[y0:y1, x0:x1].
Crop(m, y0, y1, x0, x1) ==
    LET r0 == SliceBound(y0, Height(m))
        r1 == SliceBound(y1, Height(m))
        c0 == SliceBound(x0, Width(m))
        c1 == SliceBound(x1, Width(m))
        rows == IF r1 > r0 THEN r1 - r0 ELSE 0
        cols == IF c1 > c0 THEN c1 - c0 ELSE 0
    IN  [i \in 1..rows |-> [j \in 1..cols |-> m[r0 + i][c0 + j]]]

\* As ExtentConflict, but one of xlim and ylim is enough for the conflict.
ExtentConflictAnyLim(extent, xlim, ylim) ==
    ~IsNone(extent) /\ (~IsNone(xlim) \/ ~IsNone(ylim))

\* Line 307: extent together with both xlim and ylim.
ExtentConflict(extent, xlim, ylim) ==
    ~IsNone(extent) /\ ~IsNone(xlim) /\ ~IsNone(ylim)

Reverse(s) == [k \in 1..Len(s) |-> s[Len(s) + 1 - k]]

ImshowzOutcome(fg, mg, result, why, o) ==
    [figs |-> fg, managers |-> mg, result |-> result, why |-> why] @@ o

NoView == [rotated |-> <<>>, data |-> <<>>, xlim |-> <<>>, ylim |-> <<>>, window |-> None, extent |-> <<>>,
           lims |-> None, fig |-> 0, ax |-> 0, blank_ticks |-> FALSE, log |-> <<>>,
           show |-> FALSE, save |-> None]

\* imshowz(data, **a).
imshowz(fg, mg, a) ==
    LET show0 == DefaultShow(a.show, a.save)                              \* 298-299
        prep == prep_data_plot(a.data)                                    \* 301
        data0 == Val(prep.data)
        show == IF a.interactive THEN FALSE ELSE show0                    \* 303-305
        save == IF a.interactive THEN None ELSE a.save
    IN  IF prep.result # "ok"
        THEN ImshowzOutcome(fg, mg, prep.result, "data", NoView)
        ELSE IF ExtentConflict(a.extent, a.xlim, a.ylim)
        THEN ImshowzOutcome(fg, mg, "ValueError", "extent", NoView)
        ELSE IF a.rotate # 0 /\ ~IsWhole(a.rotate, 90)
        THEN ImshowzOutcome(fg, mg, "ValueError", "rotate", NoView)
        ELSE
        LET xlim0 == IF IsNone(a.xlim) THEN <<0, Width(data0)>> ELSE Val(a.xlim)   \* 312-315
            ylim0 == IF IsNone(a.ylim) THEN <<0, Height(data0)>> ELSE Val(a.ylim)
            data1 == IF a.rotate # 0 THEN rot90(data0, a.rotate \div 90) ELSE data0 \* 317-321
            rad == IF IsNone(a.cxy) THEN 0 ELSE Radius(Val(a.cxy), a.plot_rad, Shape(data1))
            xlim1 == IF IsNone(a.cxy) THEN xlim0 ELSE CenterWindow(Val(a.cxy)[1], rad, Width(data1))
            ylim1 == IF IsNone(a.cxy) THEN ylim0 ELSE CenterWindow(Val(a.cxy)[2], rad, Height(data1))
            window == IF IsNone(a.cxy) THEN None
                      ELSE Some([xlim |-> xlim1, ylim |-> ylim1, rad |-> rad, shape |-> Shape(data1)])
            data2 == IF a.trim_data THEN Crop(data1, ylim1[1], ylim1[2], xlim1[1], xlim1[2]) ELSE data1
            xlim2 == IF a.trim_data THEN <<0, Width(data2) - 1>> ELSE xlim1         \* 336-340
            ylim2 == IF a.trim_data THEN <<0, Height(data2) - 1>> ELSE ylim1
            fa == figaxes(fg, mg, a.axes, a.force_new, TRUE)                       \* 348
        IN  IF fa.result # "ok"
            THEN ImshowzOutcome(fa.figs, fa.managers, fa.result, "axes", NoView)
            ELSE
            LET extent == IF IsNone(a.extent) THEN xlim2 \o ylim2 ELSE Val(a.extent)  \* 351-352
                fg1 == [fa.figs EXCEPT ![fa.fig] = draw(@, fa.ax, "image")]           \* 353
                fg2 == IF a.colorbar                                                  \* 364-365
                       THEN [fg1 EXCEPT ![fa.fig] = draw(add_subplot(@), Len(@) + 1, "colorbar")]
                       ELSE fg1
                xlim3 == IF a.invertx THEN Reverse(xlim2) ELSE xlim2                  \* 355-358
                ylim3 == IF a.inverty THEN Reverse(ylim2) ELSE ylim2
                props == set_plot_props(fg2, fa.managers, fa.fig, fa.ax,              \* 367-373
                            [xlim |-> Some(Pair(xlim3[1], xlim3[2])),
                             ylim |-> Some(Pair(ylim3[1], ylim3[2])),
                             legend |-> None, save |-> save, show |-> Some(show),
                             close |-> IF IsNone(a.close) THEN FALSE ELSE Val(a.close),
                             fill_between |-> None, ax_method |-> None, vspan |-> None])
            IN  ImshowzOutcome(props.figs, props.managers, props.result,
                    IF props.result = "ok" THEN "" ELSE "props",
                    [rotated |-> data1, data |-> data2, xlim |-> xlim3, ylim |-> ylim3, window |-> window,
                     extent |-> extent, lims |-> a.minmax, fig |-> fa.fig, ax |-> fa.ax,
                     blank_ticks |-> ~a.ticks,                                        \* 360-362
                     log |-> props.log, show |-> show, save |-> save])

\* ------------------------------------------------------------ the session
\* Before any call: no figure is open.
Init ==
    /\ figs = [n \in FigIds |-> <<>>]
    /\ managers = <<>>
    /\ ncalls = 0
    /\ call = [op |-> "none"]
    /\ ret = [result |-> "none"]

\* What a call leaves behind besides the registry.
Strip(o) == [k \in DOMAIN o \ {"figs", "managers"} |-> o[k]]

Fits(fg) == \A n \in FigIds : Len(fg[n]) <= MaxAxes

\* The call `op` with arguments `args` and outcome `o` is made.
Apply(op, args, o) ==
    /\ Fits(o.figs)
    /\ figs' = o.figs
    /\ managers' = o.managers
    /\ call' = [op |-> op] @@ args
    /\ ret' = Strip(o)

\* One more call of a session of at most `limit` calls.
Within(limit) == ncalls < limit /\ ncalls' = ncalls + 1

\* The call that ends a session prepared by at most `limit` calls.
Last(limit) == ncalls <= limit /\ ncalls' = limit + 1

FigaxesArgs(axes, force_new, clear) == [axes |-> axes, force_new |-> force_new, clear |-> clear]

\* dp.figaxes(axes, force_new, clear), one action for each kind of `axes`.
Figaxes(kind) ==
    /\ Within(MaxCalls)
    /\ \E axes \in Descriptors(figs, managers), force_new \in BOOLEAN, clear \in BOOLEAN :
        /\ axes.kind = kind
        /\ WithinFigs(managers, axes, force_new)
        /\ Apply("figaxes", FigaxesArgs(axes, force_new, clear),
                 figaxes(figs, managers, axes, force_new, clear))

FigaxesNone == Figaxes("None")
FigaxesInt == Figaxes("int")
FigaxesFigure == Figaxes("Figure")
FigaxesAxes == Figaxes("Axes")
FigaxesOther == Figaxes("str")

\* The surfaces a caller can hand to fill_between and set_plot_props.
Surfaces(fg, mg) == {d \in Descriptors(fg, mg) : d.kind = "Axes"}

\* dp.plot_accross(data, axes=axes, pos=pos) for a shape and a pos of the given sets.
PlotAccross(Shapes, Positions) ==
    \E data \in Shapes, pos \in Positions, axes \in Descriptors(figs, managers) :
        /\ WithinFigs(managers, axes, TRUE)
        /\ Apply("plot_accross", [data |-> data, pos |-> pos, axes |-> axes],
                 plot_accross(figs, managers, data, axes, pos))

\* dp.fill_between(ax, bottom=bottom, top=top) for values of the given set.
FillBetween(Values) ==
    \E ax \in Surfaces(figs, managers), bottom \in Values, top \in Values :
        Apply("fill_between", [ax |-> ax, bottom |-> bottom, top |-> top],
              fill_between(figs, ax.fig, ax.idx, bottom, top) @@ [managers |-> managers])

SessionPlotAccross == Within(MaxCalls) /\ PlotAccross({NdArray(<<2, 2>>)}, {Scalar(0)})
SessionFillBetween == Within(MaxCalls) /\ FillBetween({PyNone, PyArray(<<1>>)})

NextFigaxes ==
    \/ FigaxesNone
    \/ FigaxesInt
    \/ FigaxesFigure
    \/ FigaxesAxes
    \/ FigaxesOther
    \/ SessionPlotAccross
    \/ SessionFillBetween

SpecFigaxes == Init /\ [][NextFigaxes]_vars

\* ------------------------------------------------------------------ C8
\* C8: when figaxes is given an existing sub-surface (Axes) handle, it returns
\* that sub-surface and the container that owns it, creates no container and
\* no sub-surface, and wipes, when clear is true, that sub-surface's content
\* only: its siblings and every other container keep content and membership.
C8_AxesHandleFrame ==
    [][(call'.op = "figaxes" /\ call'.axes.kind = "Axes") =>
        LET f == call'.axes.fig
            i == call'.axes.idx
        IN  /\ ret'.result = "ok"
            /\ ret'.fig = f /\ ret'.ax = i
            /\ managers' = managers
            /\ \A g \in FigIds \ {f} : figs'[g] = figs[g]
            /\ Len(figs'[f]) = Len(figs[f])
            /\ \A j \in 1..Len(figs[f]) : j # i => figs'[f][j] = figs[f][j]
            /\ figs'[f][i] = IF call'.clear THEN NewAxes ELSE figs[f][i]]_vars

\* A sub-surface was wiped through its handle while a sibling and another container hold content.
C8_Witness ==
    /\ call.op = "figaxes" /\ call.axes.kind = "Axes" /\ call.clear
    /\ figs[call.axes.fig][call.axes.idx] = NewAxes
    /\ \E j \in 1..Len(figs[call.axes.fig]) : j # call.axes.idx /\ figs[call.axes.fig][j] # NewAxes
    /\ \E g \in Range(managers) : g # call.axes.fig /\ figs[g][1] # NewAxes

\* ------------------------------------------------- decorating a surface
SetupPlotAccross == Within(MaxSetup) /\ PlotAccross({NdArray(<<2, 2>>)}, {Scalar(0)})

\* The keyword sets a caller hands to set_plot_props.
AxMethodInputs ==
    {None,
     Some(<<Entry("axvspan", FALSE, << <<5, 6>> >>)>>),
     Some(<<Entry("axvspan", TRUE, << <<5, 6>>, <<7, 8>> >>)>>),
     Some(<<Entry("grid", FALSE, << <<>> >>), Entry("axvspan", FALSE, << <<5, 6>> >>)>>),
     Some(<<Entry("axhline", FALSE, << <<3>> >>), Entry("vspan", FALSE, << <<5, 6>> >>)>>)}
FillInputs ==
    {None} \cup {Some([bottom |-> b, top |-> t]) : b \in {PyNone, PyArray(<<1>>)}, t \in {PyNone, PyArray(<<2>>)}}
LegendInputs ==
    {None, Some([kind |-> "dict", loc |-> None]), Some([kind |-> "dict", loc |-> Some(2)]),
     Some([kind |-> "bool", loc |-> None])}
LimInputs == {None, Some(Number(5)), Some(Pair(1, 4))}
PropsInputs ==
    [xlim : LimInputs, ylim : {None, Some(Number(7))}, legend : LegendInputs,
     save : {None, Some("/x")}, show : {None, Some(TRUE), Some(FALSE)}, close : BOOLEAN,
     fill_between : FillInputs, ax_method : AxMethodInputs, vspan : {None, Some(<<1, 2>>)}]

\* dp.set_plot_props(ax, **a).
SetPlotProps ==
    /\ Last(MaxSetup)
    /\ \E ax \in Surfaces(figs, managers), a \in PropsInputs :
        Apply("set_plot_props", [ax |-> ax, a |-> a],
                 set_plot_props(figs, managers, ax.fig, ax.idx, a))

\* The array whose cell (i, j) holds 10*i + j: every cell differs from the others.
Matrix(h, w) == [i \in 1..h |-> [j \in 1..w |-> 10 * i + j]]

\* The defaults of imshowz's parameters (lines 235-245).
ImshowzDefaults ==
    [minmax |-> None, xlim |-> None, ylim |-> None, cxy |-> None, plot_rad |-> None,
     ticks |-> TRUE, colorbar |-> FALSE, rotate |-> 0, invertx |-> FALSE, inverty |-> FALSE,
     trim_data |-> FALSE, extent |-> None, interactive |-> FALSE,
     save |-> None, show |-> None, close |-> None]

\* dp.imshowz(data, axes=axes, force_new=force_new, **a) for the keyword sets of Inputs
\* and the descriptors of the given kinds.
Imshowz(Inputs, Kinds) ==
    /\ Last(MaxSetup)
    /\ \E a \in Inputs, axes \in Descriptors(figs, managers), force_new \in BOOLEAN :
        /\ axes.kind \in Kinds
        /\ WithinFigs(managers, axes, force_new)
        /\ LET args == [axes |-> axes, force_new |-> force_new] @@ a @@ ImshowzDefaults
           IN  Apply("imshowz", [a |-> args], imshowz(figs, managers, args))

ShowInputs ==
    [data : {NdArray(Matrix(2, 3))}, save : {None, Some("/x")}, show : {None, Some(TRUE), Some(FALSE)},
     close : {None, Some(TRUE), Some(FALSE)}, interactive : BOOLEAN, colorbar : BOOLEAN]

AllKinds == {"None", "int", "Figure", "Axes", "str"}

ImshowzShow == Imshowz(ShowInputs, AllKinds)

NextDecorate ==
    \/ SetupPlotAccross
    \/ SetPlotProps
    \/ ImshowzShow

SpecDecorate == Init /\ [][NextDecorate]_vars

Acts(log) == {log[k].act : k \in 1..Len(log)}

\* ------------------------------------------------------------------ C4
\* C4: in set_plot_props, and in imshowz when interactive is false, with show
\* not supplied the figure is shown if and only if save is None (it is never
\* shown when a save path is given, and is shown by every call that runs to
\* its end when none is); with a save path and show=True both supplied, a
\* call that runs to its end performs both the save and the show.
C4_ShowDefault ==
    (call.op \in {"set_plot_props", "imshowz"} /\ (call.op = "imshowz" => ~call.a.interactive)) =>
        /\ (IsNone(call.a.show) /\ ~IsNone(call.a.save)) => "show" \notin Acts(ret.log)
        /\ (IsNone(call.a.show) /\ IsNone(call.a.save) /\ ret.result = "ok") => "show" \in Acts(ret.log)
        /\ (call.a.show = Some(TRUE) /\ ~IsNone(call.a.save) /\ ret.result = "ok")
               => {"savefig", "show"} \subseteq Acts(ret.log)

\* set_plot_props completed with a save path and show=True together: saved and shown.
C4_Witness ==
    /\ call.op = "set_plot_props" /\ ret.result = "ok"
    /\ call.a.show = Some(TRUE) /\ ~IsNone(call.a.save)
    /\ {"savefig", "show"} \subseteq Acts(ret.log)

\* imshowz, not interactive, completed with show left out and a save path: saved, not shown.
C4_WitnessImshowz ==
    /\ call.op = "imshowz" /\ ~call.a.interactive /\ ret.result = "ok"
    /\ IsNone(call.a.show) /\ ~IsNone(call.a.save)
    /\ "savefig" \in Acts(ret.log) /\ "show" \notin Acts(ret.log)

\* ------------------------------------------------------------------ C7
\* The block of set_plot_props an action on the surface belongs to.
Block(act) ==
    CASE act \in AxesMethods \cup {"fill_between"} -> 1
      [] act \in {"set_title", "set_xlabel", "set_ylabel", "legend", "set_xlim", "set_ylim", "tight_layout"} -> 2
      [] act = "savefig" -> 3
      [] act = "show" -> 4
      [] act = "close" -> 5

\* C7: in every call of set_plot_props the actions on the surface occur in
\* the order: ax_method dispatch and fill_between, then title, labels, legend
\* and limits, then save, then show, then close.
C7_BlockOrder ==
    call.op \in {"set_plot_props", "imshowz"} =>
        \A j \in 1..Len(ret.log), k \in 1..Len(ret.log) :
            j < k => Block(ret.log[j].act) <= Block(ret.log[k].act)

\* A call that dispatched a method, drew a band, set legend and limits, saved, showed and closed.
C7_Witness ==
    /\ call.op = "set_plot_props" /\ ret.result = "ok"
    /\ {"axvspan", "fill_between", "legend", "set_xlim", "savefig", "show", "close"} \subseteq Acts(ret.log)

\* ------------------------------------------------------------------ C10
\* C10: when the caller supplies both vspan and an ax_method entry for
\* 'axvspan', the caller's 'axvspan' keyword sets are the ones dispatched:
\* the vspan shorthand neither replaces nor discards them.
C10_VspanKeepsAxvspan ==
    (call.op = "set_plot_props" /\ ret.result = "ok"
        /\ ~IsNone(call.a.vspan) /\ ~IsNone(call.a.ax_method)) =>
        \A j \in 1..Len(Val(call.a.ax_method)) :
            LET e == Val(call.a.ax_method)[j]
            IN  e.method = "axvspan" =>
                    \A k \in 1..Len(e.kws) :
                        \E n \in 1..Len(ret.log) : ret.log[n] = Ev("axvspan", e.kws[k])

\* ------------------------------------------------- displaying an image
Matrices == {NdArray(Matrix(h, w)) : h \in 1..MaxDim, w \in 1..MaxDim}

Centers == {<<cx, cy>> : cx \in -1..(MaxDim + 1), cy \in -1..(MaxDim + 1)}

\* Center and radius: every center in and around the data, radii from negative to overshooting.
WindowInputs ==
    [data : Matrices, cxy : {Some(c) : c \in Centers},
     plot_rad : {None, Some(-1), Some(0), Some(1), Some(MaxDim + 1)}, rotate : {0, 90}]

\* Rotations: multiples of 90 of either sign and beyond a full turn, and values that are none.
Rotations == {0, 90, 180, 270, 360, 450, 720, -90, -180, -270, -360, -450, 45, -45, 100, 1, 89, -1, 135}

RotateInputs == [data : Matrices, rotate : Rotations, trim_data : BOOLEAN, ticks : BOOLEAN]

\* extent, xlim and ylim, each supplied or not.
ExtentInputs ==
    [data : {NdArray(Matrix(2, 3)), HDU(Some(Matrix(3, 2))), HDU(None), HDUList(None), Unreadable},
     extent : {None, Some(<<0, 10, 0, 20>>)},
     xlim : {None, Some(<<0, 2>>)}, ylim : {None, Some(<<1, 2>>)},
     rotate : {0, 90, 45}, trim_data : BOOLEAN, invertx : BOOLEAN]

ImshowzWindow == Imshowz(WindowInputs, {"None"})
ImshowzRotate == Imshowz(RotateInputs, {"None", "Axes"})
ImshowzExtent == Imshowz(ExtentInputs, AllKinds)

NextImshowz ==
    \/ SetupPlotAccross
    \/ ImshowzWindow
    \/ ImshowzRotate
    \/ ImshowzExtent

SpecImshowz == Init /\ [][NextImshowz]_vars

\* ------------------------------------------------------------------ C1
InWindow(lim, size) == 0 <= lim[1] /\ lim[1] < lim[2] /\ lim[2] <= size

\* C1 as stated: whenever cxy is given, for every shape, cxy and plot_rad, the
\* window of the center+radius step satisfies 0 <= x_min < x_max <= width and
\* 0 <= y_min < y_max <= height.
C1_WindowAlwaysInside ==
    (call.op = "imshowz" /\ ~IsNone(ret.window)) =>
        LET v == Val(ret.window)
        IN  InWindow(v.xlim, v.shape[2]) /\ InWindow(v.ylim, v.shape[1])

\* C1 as amended: on non-empty data, x_min >= 0, x_max <= width, y_min >= 0
\* and y_max <= height for every cxy and plot_rad, width and height being
\* those of the data after rotation; and 0 <= x_min < x_max <= width,
\* 0 <= y_min < y_max <= height whenever the radius used is positive and
\* cxy +- radius overlaps the data on both axes.
C1_WindowInsideWhenOverlapping ==
    (call.op = "imshowz" /\ ~IsNone(ret.window)) =>
        LET v == Val(ret.window)
            c == Val(call.a.cxy)
            w == v.shape[2]
            h == v.shape[1]
        IN  /\ 0 <= v.xlim[1] /\ v.xlim[2] <= w
            /\ 0 <= v.ylim[1] /\ v.ylim[2] <= h
            /\ (v.rad > 0 /\ c[1] - v.rad < w /\ c[1] + v.rad > 0
                          /\ c[2] - v.rad < h /\ c[2] + v.rad > 0)
                  => InWindow(v.xlim, w) /\ InWindow(v.ylim, h)

\* A radius that overshoots the data on every side was clamped to the whole data.
C1_Witness ==
    /\ call.op = "imshowz" /\ ~IsNone(ret.window)
    /\ ~IsNone(call.a.plot_rad) /\ Val(call.a.plot_rad) > Val(ret.window).shape[2]
    /\ Val(call.a.cxy)[1] + Val(call.a.plot_rad) > Val(ret.window).shape[2]
    /\ Val(call.a.cxy)[1] - Val(call.a.plot_rad) < 0
    /\ Val(ret.window).xlim = <<0, Val(ret.window).shape[2]>>
    /\ Val(ret.window).shape[1] # Val(ret.window).shape[2]

\* ------------------------------------------------------------------ C3
\* One quarter-turn counterclockwise: cell (i, j) of the result is cell (j, width+1-i).
QuarterTurn(m) == [i \in 1..Width(m) |-> [j \in 1..Height(m) |-> m[j][Width(m) + 1 - i]]]

RECURSIVE Turns(_, _)
Turns(m, n) == IF n = 0 THEN m ELSE QuarterTurn(Turns(m, n - 1))

C5_ExtentConflict ==
    [][(call'.op = "imshowz" /\ ~IsNone(call'.a.data.data)) =>
        IF ~IsNone(call'.a.extent) /\ ~IsNone(call'.a.xlim) /\ ~IsNone(call'.a.ylim)
        THEN /\ ret'.result = "ValueError" /\ ret'.why = "extent"
             /\ figs' = figs /\ managers' = managers
        ELSE /\ ret'.why # "extent"
             /\ (call'.a.rotate % 90 = 0 /\ call'.a.axes.kind # "str") => ret'.result = "ok"]_vars

\* The conflict was raised with a figure open, and left it as it was.
C5_Witness ==
    /\ call.op = "imshowz" /\ ret.result = "ValueError" /\ ret.why = "extent"
    /\ call.a.axes.kind = "Axes"
    /\ figs[call.a.axes.fig][call.a.axes.idx] = {"line"}

\* ------------------------------------------------- cutting across an array
\* Sequences over S of length 1..n.
RECURSIVE SeqsOfLen(_, _)
SeqsOfLen(S, n) == IF n = 0 THEN {<<>>} ELSE {Append(q, x) : q \in SeqsOfLen(S, n - 1), x \in S}
SeqsUpTo(S, n) == UNION {SeqsOfLen(S, k) : k \in 1..n}

AcrossShapes ==
    {NdArray(d) : d \in SeqsUpTo(1..MaxDim, MaxRank) \cup {<<5, 4, 10>>}}
    \cup {HDU(Some(<<2, 3>>)), HDU(None), File(None)}
AcrossPositions ==
    {Scalar(p) : p \in -1..MaxDim} \cup {List(q) : q \in SeqsUpTo({None, Some(0), Some(1)}, MaxRank)}

AcrossCall == Last(MaxSetup) /\ PlotAccross(AcrossShapes, AcrossPositions)

NextAccross ==
    \/ SetupPlotAccross
    \/ AcrossCall

SpecAccross == Init /\ [][NextAccross]_vars

\* ------------------------------------------------------------------ C2
\* C2: for every n-dimensional array (n >= 2) and every in-range scalar pos,
\* plot_accross expands pos to a position of length n (first axis free, the
\* middle axes at 0, the last axis at pos) and completes normally, returning
\* a 1-D slice of length shape[0].
C2_ScalarPosReturnsSlice ==
    (call.op = "plot_accross" /\ call.pos.kind = "scalar" /\ ~IsNone(call.data.data)
        /\ Len(Val(call.data.data)) >= 2
        /\ IndexOk(call.pos.n, Val(call.data.data)[Len(Val(call.data.data))])
        /\ call.axes.kind # "str") =>
        /\ Len(ret.pos) = Len(Val(call.data.data))
        /\ IsNone(ret.pos[1])
        /\ \A k \in 2..(Len(ret.pos) - 1) : ret.pos[k] = Some(0)
        /\ ret.pos[Len(ret.pos)] = Some(call.pos.n)
        /\ ret.accross = Some(<<Val(call.data.data)[1]>>)
        /\ ret.result = "ok"

\* -------------------------------------------------------- dating an x axis
TimeValues == {0, 3, 4, 479, 480, 7199, 7200, 525599, 525600}

XdateInputs ==
    {[kind |-> k, v |-> q] : k \in {"Time", "jd"}, q \in SeqsUpTo(TimeValues, MaxLen)}
    \cup {[kind |-> "datetime", v |-> <<0>>], [kind |-> "str", v |-> <<>>]}

\* dp.figaxes_xdate(x, axes, clear).
XdateCall ==
    /\ Last(MaxSetup)
    /\ \E x \in XdateInputs, axes \in Descriptors(figs, managers), clear \in BOOLEAN :
        /\ WithinFigs(managers, axes, TRUE)
        /\ Apply("figaxes_xdate", [x |-> x, axes |-> axes, clear |-> clear],
                 figaxes_xdate(figs, managers, x, axes, clear))

NextXdate ==
    \/ SetupPlotAccross
    \/ XdateCall

SpecXdate == Init /\ [][NextXdate]_vars

\* ------------------------------------------------------------------ C6
\* The format the claim gives a span of so many minutes.
TierOfSpan(minutes) ==
    IF minutes < 4 THEN "%H:%M:%S"
    ELSE IF minutes < 8 * 60 THEN "%H:%M"
    ELSE IF minutes < 5 * 24 * 60 THEN "%Y-%b-%d %H:%M"
    ELSE IF minutes < 365 * 24 * 60 THEN "%Y %b"
    ELSE "%Y"

\* C6: figaxes_xdate selects the date format from the total span
\* max(x) - min(x) of the time sequence in minutes, each tier boundary
\* exclusive on the lower tier, whatever the order of the elements.
C6_FormatBySpan ==
    (call.op = "figaxes_xdate" /\ ret.result = "ok") =>
        ret.fmt = Some(TierOfSpan(Max(Range(call.x.v)) - Min(Range(call.x.v))))

\* ------------------------------------------------------- shading a band
FillValues ==
    {PyNone, PyFloat(2), PyInt(2)} \cup {PyArray(q) : q \in SeqsUpTo({0, 1, 3}, MaxLen)}

FillCall == Last(MaxSetup) /\ FillBetween(FillValues)

NextFill ==
    \/ SetupPlotAccross
    \/ FillCall

SpecFill == Init /\ [][NextFill]_vars

\* ------------------------------------------------------------------ C9
\* The values the claim's defaults apply to: omitted, a float, or arrays of one length.
Plain(bottom, top) ==
    /\ bottom.kind \in {"None", "float", "array"} /\ top.kind \in {"None", "float", "array"}
    /\ (bottom.kind = "array" /\ top.kind = "array") => Len(bottom.a) = Len(top.a)
    /\ "array" \in {bottom.kind, top.kind}

\* C9: with both omitted fill_between returns at once, with no twin scale and
\* nothing drawn; otherwise an omitted bottom is all zero, an omitted top is
\* bottom's maximum across the sequence, a scalar is broadcast to the other's
\* length, and the call (only bottom, only top, both) completes without error.
C9_FillDefaults ==
    call.op = "fill_between" =>
        /\ (call.bottom.kind = "None" /\ call.top.kind = "None") => ret.result = "ok" /\ ret.twin = 0
        /\ Plain(call.bottom, call.top) =>
            /\ ret.result = "ok"
            /\ ret.twin # 0
            /\ call.bottom.kind = "None" => ret.bottom = PyArray(Repeat(0, Len(call.top.a)))
            /\ call.top.kind = "None" =>
                   ret.top = PyArray(Repeat(Max(Range(call.bottom.a)), Len(call.bottom.a)))
            /\ call.bottom.kind = "float" => ret.bottom = PyArray(Repeat(call.bottom.v, Len(call.top.a)))
            /\ call.top.kind = "float" => ret.top = PyArray(Repeat(call.top.v, Len(call.bottom.a)))

====
